---- MODULE Spec2Model ----
(***************************************************************************)
(* Model of the SPASS -> Chrome CSV conversion pipeline of                 *)
(* src/utils/spassDecryptor.ts (convertSpassToChromeCSV and its helpers).  *)
(*                                                                         *)
(* Bytes are integers 0..255.  Strings are sequences of UTF-16 code units  *)
(* (integers), so that charCodeAt, atob, TextDecoder, trim and split are   *)
(* modelled by what they compute and not as identities.                    *)
(***************************************************************************)
EXTENDS Integers, Sequences, FiniteSets, TLC

\* ------------------------------------------------------------------------
\* Program constants
\* ------------------------------------------------------------------------

\* SPASS_CONFIG.SALT_BYTES
SALT_BYTES == 20

\* SPASS_CONFIG.BLOCK_SIZE (IV length; also the AES block length)
BLOCK_SIZE == 16

\* `if (fields.length < 33) continue;`
MIN_COLUMNS == 33

\* Code units of the characters the code names in literals.
Ch == [lf |-> 10, cr |-> 13, semi |-> 59, comma |-> 44, quote |-> 34,
       eq |-> 61, plus |-> 43, slash |-> 47, sp |-> 32, tab |-> 9,
       vt |-> 11, ff |-> 12, bang |-> 33, repl |-> 65533]

\* 'next_table'
NEXT_TABLE == <<110, 101, 120, 116, 95, 116, 97, 98, 108, 101>>

\* Variant of colsNeeded: name and url positions exchanged.
colsNeeded_swapped == <<1, 17, 4, 7, 31>>

\* const colsNeeded = [17, 1, 4, 7, 31];  (zero-based column positions)
colsNeeded == <<17, 1, 4, 7, 31>>

\* CHROME_CSV_HEADERS: name, url, username, password, note
CHROME_CSV_HEADERS == << <<110, 97, 109, 101>>,
                         <<117, 114, 108>>,
                         <<117, 115, 101, 114, 110, 97, 109, 101>>,
                         <<112, 97, 115, 115, 119, 111, 114, 100>>,
                         <<110, 111, 116, 101>> >>

\* Error messages / names, as tokens.
ERR_ATOB == "InvalidCharacterError"
ERR_CRYPTO == "OperationError"
ERR_PASSWORD == "Invalid password or corrupted SPASS file"
ERR_FORMAT == "Invalid SPASS format: missing data section"
ERR_NO_CRYPTO == "ReferenceError: crypto is not defined"
ERR_NO_SUBTLE == "TypeError: crypto.subtle is undefined"
DEFAULT_FILENAME == "chrome_passwords.csv"
MSG_NO_FILE == "Please select a Samsung Pass export file (.spass)."
MSG_NO_PASSWORD == "Please enter the password."
MSG_FAILED == "Conversion failed."

\* ------------------------------------------------------------------------
\* JavaScript library semantics used by the code
\* ------------------------------------------------------------------------

MinOf(S) == CHOOSE x \in S : \A y \in S : x <= y
MaxOf(S) == CHOOSE x \in S : \A y \in S : x >= y

\* ECMAScript WhiteSpace + LineTerminator: what String.prototype.trim strips.
JsWhiteSpace == {9, 10, 11, 12, 13, 32, 160, 5760, 8232, 8233, 8239, 8287,
                 12288, 65279} \cup (8192..8202)

\* "ASCII whitespace" of the forgiving-base64 decode behind atob.
AsciiWhiteSpace == {9, 10, 12, 13, 32}

\* String.prototype.trim
Trim(s) ==
  LET keep == {i \in 1..Len(s) : s[i] \notin JsWhiteSpace}
  IN  IF keep = {} THEN <<>> ELSE SubSeq(s, MinOf(keep), MaxOf(keep))

\* sep occurs in s at position i (1-based)
OccursAt(s, sep, i) ==
  /\ i + Len(sep) - 1 <= Len(s)
  /\ \A j \in 1..Len(sep) : s[i + j - 1] = sep[j]

\* String.prototype.split(sep) for a non-empty separator
RECURSIVE SplitFrom(_, _, _)
SplitFrom(s, sep, from) ==
  LET hits == {i \in from..Len(s) : OccursAt(s, sep, i)}
  IN  IF hits = {}
      THEN << SubSeq(s, from, Len(s)) >>
      ELSE LET i == MinOf(hits)
           IN  << SubSeq(s, from, i - 1) >> \o SplitFrom(s, sep, i + Len(sep))

Split(s, sep) == SplitFrom(s, sep, 1)

\* Array.prototype.join(sep)
RECURSIVE Join(_, _)
Join(parts, sep) ==
  IF Len(parts) = 0 THEN <<>>
  ELSE IF Len(parts) = 1 THEN parts[1]
  ELSE parts[1] \o sep \o Join(Tail(parts), sep)

\* TypedArray.prototype.slice(0, end): a negative end counts from the end,
\* the result is clamped to the array.
SliceTo(data, end) ==
  LET len == Len(data)
      fin == IF end < 0 THEN (IF len + end < 0 THEN 0 ELSE len + end)
             ELSE (IF end > len THEN len ELSE end)
  IN  SubSeq(data, 1, fin)

\* TypedArray.prototype.slice(start, end) with 0 <= start <= end
SliceRange(data, start, end) ==
  LET len == Len(data)
      a == IF start > len THEN len ELSE start
      b == IF end > len THEN len ELSE end
  IN  SubSeq(data, a + 1, b)

\* Value of a base64 alphabet character, -1 for any other code unit.
B64Value(c) ==
  IF c \in 65..90 THEN c - 65
  ELSE IF c \in 97..122 THEN c - 71
  ELSE IF c \in 48..57 THEN c + 4
  ELSE IF c = Ch.plus THEN 62
  ELSE IF c = Ch.slash THEN 63
  ELSE -1

\* atob: forgiving-base64 decode.  Result: [ok, value]; ok = FALSE is the
\* InvalidCharacterError the browser throws; value is the "binary string"
\* (one code unit 0..255 per decoded byte).
Atob(s) ==
  LET stripped == SelectSeq(s, LAMBDA c : c \notin AsciiWhiteSpace)
      n == Len(stripped)
      body == IF n > 0 /\ n % 4 = 0 /\ stripped[n] = Ch.eq
              THEN IF stripped[n - 1] = Ch.eq
                   THEN SubSeq(stripped, 1, n - 2)
                   ELSE SubSeq(stripped, 1, n - 1)
              ELSE stripped
      m == Len(body)
      v(i) == IF i <= m THEN B64Value(body[i]) ELSE 0
      outLen == (m * 6) \div 8
      byte(k) == LET g == 4 * (k \div 3)
                     p == k % 3
                 IN  IF p = 0 THEN v(g + 1) * 4 + v(g + 2) \div 16
                     ELSE IF p = 1 THEN (v(g + 2) % 16) * 16 + v(g + 3) \div 4
                     ELSE (v(g + 3) % 4) * 64 + v(g + 4)
  IN  IF m % 4 = 1 \/ \E i \in 1..m : B64Value(body[i]) = -1
      THEN [ok |-> FALSE, value |-> <<>>]
      ELSE [ok |-> TRUE, value |-> [k \in 1..outLen |-> byte(k - 1)]]

\* base64ToUint8Array: atob, then charCodeAt of every code unit.
base64ToUint8Array(base64) ==
  LET bin == Atob(base64)
  IN  [ok |-> bin.ok, value |-> [i \in 1..Len(bin.value) |-> bin.value[i] % 256]]

\* new TextDecoder().decode: UTF-8.  A byte below 0x80 is its own code
\* unit; the bytes 0xF8..0xFF are never part of a well-formed sequence and
\* each decodes to U+FFFD.  (The documents of this model hold no other
\* bytes above 0x7F.)
TextDecode(bytes) ==
  [i \in 1..Len(bytes) |-> IF bytes[i] < 128 THEN bytes[i] ELSE Ch.repl]

\* ------------------------------------------------------------------------
\* The code's own helpers
\* ------------------------------------------------------------------------

\* removePKCS5Padding: data[data.length - 1] of an empty array is undefined,
\* data.length - undefined is NaN, and slice(0, NaN) is slice(0, 0).
removePKCS5Padding(data) ==
  IF Len(data) = 0
  THEN SliceTo(data, 0)
  ELSE LET paddingLen == data[Len(data)]
       IN  SliceTo(data, Len(data) - paddingLen)

\* field.replace(/"/g, '""')
RECURSIVE DoubleQuotes(_)
DoubleQuotes(field) ==
  IF field = <<>> THEN <<>>
  ELSE IF Head(field) = Ch.quote
       THEN <<Ch.quote, Ch.quote>> \o DoubleQuotes(Tail(field))
       ELSE <<Head(field)>> \o DoubleQuotes(Tail(field))

\* Variant of escapeCSVField: the field is wrapped without doubling the
\* double quotes inside it.
escapeCSVField_noDoubling(field) ==
  IF \E i \in 1..Len(field) : field[i] \in {Ch.comma, Ch.quote, Ch.lf, Ch.cr}
  THEN <<Ch.quote>> \o field \o <<Ch.quote>>
  ELSE field

\* escapeCSVField
escapeCSVField(field) ==
  IF \E i \in 1..Len(field) : field[i] \in {Ch.comma, Ch.quote, Ch.lf, Ch.cr}
  THEN <<Ch.quote>> \o DoubleQuotes(field) \o <<Ch.quote>>
  ELSE field

\* Variant of decodeField: a field that fails to decode is left empty.
decodeField_noFallback(fields, colIndex) ==
  IF colIndex < Len(fields) /\ fields[colIndex + 1] # <<>>
  THEN Atob(fields[colIndex + 1]).value
  ELSE <<>>

\* One pass of `for (const colIndex of colsNeeded)`: the field pushed for
\* colIndex (zero-based; fields is 1-based here).
decodeField(fields, colIndex) ==
  IF colIndex < Len(fields) /\ fields[colIndex + 1] # <<>>
  THEN LET decoded == Atob(fields[colIndex + 1])
       IN  IF decoded.ok THEN decoded.value ELSE fields[colIndex + 1]
  ELSE <<>>

\* The record built from one row's fields.
buildRecord(fields) ==
  [k \in 1..Len(colsNeeded) |-> decodeField(fields, colsNeeded[k])]

\* `includeEmptyFields || record.some(field => field.trim() !== '')`
keepRecord(record, includeEmpty) ==
  includeEmpty \/ \E k \in 1..Len(record) : Trim(record[k]) # <<>>

\* Variant of tooFewColumns: a row of exactly 33 columns is discarded too.
tooFewColumns_offByOne(fields) == Len(fields) <= MIN_COLUMNS

\* `if (fields.length < 33) continue;`
tooFewColumns(fields) == Len(fields) < MIN_COLUMNS

\* `if (!line.trim()) continue;`
blankLine(line) == Trim(line) = <<>>

\* Variants of sentinelMissing: without the sentinel comparison; with the
\* sentinel looked for one line further down.
sentinelMissing_lengthOnly(lines) == Len(lines) < 3

sentinelMissing_line3(lines) ==
  Len(lines) < 4 \/ Trim(lines[4]) # NEXT_TABLE

\* The structural check of the decrypted text:
\* `lines.length < 3 || lines[2].trim() !== 'next_table'`
sentinelMissing(lines) ==
  Len(lines) < 3 \/ Trim(lines[3]) # NEXT_TABLE

\* Variant of buildCsv: the rows are written last record first.
buildCsv_reversed(recs) ==
  LET row(r) == Join([k \in 1..Len(r) |-> escapeCSVField(r[k])], <<Ch.comma>>)
      header == Join([k \in 1..Len(CHROME_CSV_HEADERS) |->
                        escapeCSVField(CHROME_CSV_HEADERS[k])], <<Ch.comma>>)
  IN  Join(<<header>> \o [i \in 1..Len(recs) |-> row(recs[Len(recs) + 1 - i])],
           <<Ch.lf>>)

\* csvRows joined: header row, then one row per record.
buildCsv(recs) ==
  LET row(r) == Join([k \in 1..Len(r) |-> escapeCSVField(r[k])], <<Ch.comma>>)
      header == Join([k \in 1..Len(CHROME_CSV_HEADERS) |->
                        escapeCSVField(CHROME_CSV_HEADERS[k])], <<Ch.comma>>)
  IN  Join(<<header>> \o [i \in 1..Len(recs) |-> row(recs[i])], <<Ch.lf>>)

\* `customFilename || 'chrome_passwords.csv'` ("" stands for undefined/empty)
chooseFilename(custom) == IF custom = "" THEN DEFAULT_FILENAME ELSE custom

\* ------------------------------------------------------------------------
\* Inputs: files, passphrases, documents
\* ------------------------------------------------------------------------

\* Largest number of data rows in a generated document body.
MaxRows == 2

\* The passphrases a call is made with / a container was produced with.
Passwords == {"pw1", "pw2"}

\* Base64 alphabet character of a 6-bit value.
B64Char(v) ==
  IF v < 26 THEN v + 65
  ELSE IF v < 52 THEN v + 71
  ELSE IF v < 62 THEN v - 4
  ELSE IF v = 62 THEN Ch.plus
  ELSE Ch.slash

\* Standard base64 encoding (with padding) of a byte sequence: how the
\* producer of a .spass file wraps the container, and of a field value.
B64Encode(bytes) ==
  LET n == Len(bytes)
      b(i) == IF i <= n THEN bytes[i] ELSE 0
      char(j) == LET g == 3 * (j \div 4)
                     q == j % 4
                 IN  IF q = 0 THEN B64Char(b(g + 1) \div 4)
                     ELSE IF q = 1
                          THEN B64Char((b(g + 1) % 4) * 16 + b(g + 2) \div 16)
                     ELSE IF q = 2
                          THEN IF g + 2 > n THEN Ch.eq
                               ELSE B64Char((b(g + 2) % 16) * 4 + b(g + 3) \div 64)
                     ELSE IF g + 3 > n THEN Ch.eq
                          ELSE B64Char(b(g + 3) % 64)
  IN  [j \in 1..(4 * ((n + 2) \div 3)) |-> char(j - 1)]

\* n copies of byte x
Fill(n, x) == [i \in 1..n |-> x]

\* PKCS#7 padding to the AES block, as the producer's cipher applies it.
Pkcs7Pad(bytes) ==
  LET p == BLOCK_SIZE - (Len(bytes) % BLOCK_SIZE)
  IN  bytes \o Fill(p, p)

\* A container: salt, IV, then ctLen bytes of ciphertext.
Container(saltLen, ivLen, ctLen) ==
  [i \in 1..saltLen |-> i] \o [i \in 1..ivLen |-> 100 + i] \o Fill(ctLen, 199)

\* The file content of a well-formed container around ctLen ciphertext bytes.
FileOf(ctLen) == B64Encode(Container(SALT_BYTES, BLOCK_SIZE, ctLen))

\* A data row of n columns; cols maps some zero-based column positions to
\* their text, every other column is empty.
MkRow(n, cols) ==
  Join([i \in 1..n |-> IF (i - 1) \in DOMAIN cols THEN cols[i - 1] ELSE <<>>],
       <<Ch.semi>>)

\* Field texts: base64 of "N", "u,1", "me", "p\"w", "l1\nl2", "x"
F == [name |-> B64Encode(<<78>>),
      url  |-> B64Encode(<<117, 44, 49>>),
      user |-> B64Encode(<<109, 101>>),
      pass |-> B64Encode(<<112, 34, 119>>),
      note |-> B64Encode(<<108, 49, 10, 108, 50>>),
      other |-> B64Encode(<<120>>),
      blank |-> B64Encode(<<32>>),
      rawLen |-> <<97>>,
      rawChar |-> <<112, Ch.bang>>]

\* The kinds of body line the generated documents are made of.
RowKinds ==
  << \* 1: 33 columns, all five target columns filled, other columns too
     MkRow(33, (17 :> F.name) @@ (1 :> F.url) @@ (4 :> F.user) @@
               (7 :> F.pass) @@ (31 :> F.note) @@ (0 :> F.other) @@
               (2 :> F.other) @@ (32 :> F.other)),
     \* 2: the same with 32 columns only
     MkRow(32, (17 :> F.name) @@ (1 :> F.url) @@ (4 :> F.user) @@
               (7 :> F.pass) @@ (31 :> F.note) @@ (0 :> F.other)),
     \* 3: 34 columns, name and password only
     MkRow(34, (17 :> F.user) @@ (7 :> F.name) @@ (33 :> F.other)),
     \* 4: 33 columns, the password column base64 of a space, the rest empty
     MkRow(33, (7 :> F.blank)),
     \* 5: 33 columns, the five target columns empty or whitespace
     \*    (space, vertical tab, tab, empty, space)
     MkRow(33, (17 :> <<Ch.sp>>) @@ (1 :> <<Ch.vt>>) @@ (4 :> <<Ch.tab>>) @@
               (31 :> <<Ch.sp>>)),
     \* 6: 33 columns, two fields that are not base64, one that is
     MkRow(33, (17 :> F.name) @@ (4 :> F.rawLen) @@ (7 :> F.rawChar)),
     \* 7: a blank line
     <<Ch.sp, Ch.sp>>,
     \* 8: 33 columns, only columns other than the five targets filled
     MkRow(33, (0 :> F.name) @@ (16 :> F.url) @@ (18 :> F.user) @@
               (30 :> F.pass) @@ (32 :> F.note)) >>

\* Longest generated field value.
MaxFieldLen == 2

\* The characters generated field values are made of: a letter and the four
\* characters escapeCSVField looks for.
FieldChars == {97, Ch.comma, Ch.quote, Ch.lf, Ch.cr}

\* Every field value of at most MaxFieldLen characters.
FieldValues == UNION {[1..n -> FieldChars] : n \in 0..MaxFieldLen}

\* Values of the field next to a generated one.
NeighbourValues == { <<>>, <<97>>, <<Ch.quote>>, <<Ch.cr, Ch.lf>> }

\* A data row of 33 columns whose name and url columns carry the base64 of
\* the given values.
FieldRow(name, url) ==
  MkRow(33, (17 :> B64Encode(name)) @@ (1 :> B64Encode(url)) @@
            (7 :> F.pass) @@ (31 :> F.note))

\* Largest number of calls one caller makes.
MaxCalls == 3

\* Every sequence of at most MaxRows row kinds.
RowChoices == UNION {[1..n -> 1..Len(RowKinds)] : n \in 0..MaxRows}

\* The header row of a table (not a data record).
TableHeader == <<104, 100, 114, Ch.semi, 99>>

\* The text of a table: header row, then the chosen rows, one per line.
TableText(choice) ==
  Join(<<TableHeader>> \o [i \in 1..Len(choice) |-> RowKinds[choice[i]]],
       <<Ch.lf>>)

\* What stands before the first table.
Preambles ==
  [ok      |-> <<118, 49, Ch.lf, 120, Ch.lf>> \o NEXT_TABLE \o <<Ch.lf>>,
   spaced  |-> <<Ch.lf, Ch.cr, Ch.lf, Ch.sp>> \o NEXT_TABLE \o <<Ch.cr, Ch.lf>>,
   line3   |-> <<97, Ch.lf, 98, Ch.lf, 99, Ch.lf>> \o NEXT_TABLE \o <<Ch.lf>>,
   line1   |-> <<97, Ch.lf>> \o NEXT_TABLE \o <<Ch.lf>>,
   inside  |-> <<97, Ch.lf, 98, Ch.lf, 120>> \o NEXT_TABLE \o <<Ch.lf>>,
   early   |-> <<97>> \o NEXT_TABLE \o <<98, Ch.lf, Ch.lf>> \o NEXT_TABLE
               \o <<Ch.lf>>,
   absent  |-> <<97, Ch.lf, 98, Ch.lf, 99, Ch.lf>>]

PreambleNames == DOMAIN Preambles

\* What the decrypted bytes end with; removePKCS5Padding reads the last one.
Trailers == { <<1>>, <<3, 3, 3>>, <<Ch.lf>>, <<0>> }

\* What follows the preamble: nothing, one table, or two tables separated
\* by the sentinel.
Bodies ==
  [none |-> <<>>,
   one  |-> TableText(<<1>>),
   two  |-> TableText(<<1>>) \o <<Ch.lf>> \o NEXT_TABLE \o <<Ch.lf>>
            \o TableText(<<3>>)]

BodyNames == DOMAIN Bodies

\* Decrypted buffers (after the cipher's own PKCS#7 removal) that probe
\* removePKCS5Padding; each is shorter than one block.
Buffers ==
  { <<>>,
    Fill(5, 5),
    Fill(14, 120) \o <<32>>,
    Fill(14, 120) \o <<20>>,
    <<Ch.lf, Ch.lf>> \o NEXT_TABLE \o <<1>>,
    <<Ch.lf, Ch.lf>> \o NEXT_TABLE \o <<0>>,
    <<Ch.lf>> \o NEXT_TABLE \o <<Ch.lf, Ch.lf, 1>>,
    <<97, Ch.lf, 98, Ch.lf, 99, Ch.lf, 100, 1>> }

\* One-block cipher outputs whose PKCS#7 padding is malformed.
BadPadded ==
  { Fill(16, 0), Fill(15, 7) \o <<17>>, Fill(14, 7) \o <<1, 2>> }

\* What one ciphertext block can decrypt to under some key.
BlockOutputs == {Pkcs7Pad(b) : b \in Buffers} \cup BadPadded

\* File contents that are not a well-formed container around one block, and
\* one that is a well-formed container followed by a line break.
EdgeFiles ==
  { B64Encode(Fill(10, 7)),
    B64Encode(Container(SALT_BYTES, 10, 0)),
    B64Encode(Container(SALT_BYTES, BLOCK_SIZE, 0)),
    B64Encode(Container(SALT_BYTES, BLOCK_SIZE, 5)),
    <<>>,
    SubSeq(FileOf(16), 1, 21) \o <<Ch.bang>> \o SubSeq(FileOf(16), 23, 72),
    SubSeq(FileOf(16), 1, 69),
    FileOf(16) \o <<Ch.lf>> }

\* ------------------------------------------------------------------------
\* State
\* ------------------------------------------------------------------------

VARIABLES
  fileContent,         \* argument: the file's text (base64)
  password,            \* argument
  autoDownload,        \* options.autoDownload
  customFilename,      \* options.customFilename ("" when absent)
  includeEmptyFields,  \* options.includeEmptyFields
  cipher,              \* environment: what the container's ciphertext
                       \* decrypts to (before padding removal) under the key
                       \* derived from each passphrase
  encPassword,         \* environment: the passphrase the producer used
  browser,             \* environment: `typeof window !== 'undefined'`
  crypto,              \* environment: "subtle" when crypto.subtle exists,
                       \* "noSubtle" when only crypto does, "none" when
                       \* crypto is not defined at all
  pc,                  \* position in convertSpassToChromeCSV
  salt, iv, encryptedData,
  key,                 \* <<>> or <<the derived key>>
  decryptedBuffer,     \* result of crypto.subtle.decrypt
  decryptedData,       \* result of decryptSpassData
  text,
  dataRows, rowIdx, records,
  csvContent, filename,
  downloads,           \* files handed to the browser by downloadCSV
  result,              \* <<>> or <<the returned SpassToChromeResult>>
  err,                 \* "" or the message of the thrown error
  calls,               \* caller: number of calls made so far, this one included
  history,             \* caller: arguments and outcome of each earlier call
  file,                \* SpassFileConverter state: <<>> (null) or <<content>>
  passwordInput,       \* SpassFileConverter state `password`
  error,               \* SpassFileConverter state
  loading,             \* SpassFileConverter state
  success              \* SpassFileConverter state

argVars == <<fileContent, password, autoDownload, customFilename,
             includeEmptyFields>>
envVars == <<cipher, encPassword, browser, crypto>>
unwrapVars == <<salt, iv, encryptedData, key, decryptedBuffer, decryptedData>>
extractVars == <<text, dataRows, rowIdx, records, csvContent, filename>>
outVars == <<downloads, result, err>>
uiVars == <<file, passwordInput, error, loading, success>>
callerVars == <<calls, history, uiVars>>
vars == <<callerVars, argVars, envVars, pc, unwrapVars, extractVars, outVars>>

\* isWebCryptoSupported
isWebCryptoSupported ==
  crypto # "none" /\ crypto # "noSubtle"

\* State at the start of a call, before its first step.
Fresh ==
  /\ pc = "decode"
  /\ salt = <<>> /\ iv = <<>> /\ encryptedData = <<>> /\ key = <<>>
  /\ decryptedBuffer = <<>> /\ decryptedData = <<>>
  /\ text = <<>> /\ dataRows = <<>> /\ rowIdx = 0 /\ records = <<>>
  /\ csvContent = <<>> /\ filename = ""
  /\ downloads = <<>> /\ result = <<>> /\ err = ""

\* The useState initial values of SpassFileConverter.
InitialForm ==
  /\ file = <<>> /\ passwordInput = "" /\ error = ""
  /\ loading = FALSE /\ success = FALSE

\* The call is the caller's first, and is not made through the form.
FirstCall == calls = 1 /\ history = {} /\ InitialForm

\* A call on a well-formed container whose plaintext is `plain`, made with
\* the passphrase it was produced with.
GoodCall(plain) ==
  LET padded == Pkcs7Pad(plain)
  IN  /\ fileContent = FileOf(Len(padded))
      /\ encPassword = "pw1"
      /\ password = "pw1"
      /\ cipher = [p \in Passwords |->
                     IF p = "pw1" THEN padded ELSE Fill(Len(padded), 0)]
      /\ crypto = "subtle"

\* Documents of one table with every choice of rows, with and without
\* includeEmptyFields.
InitExtract ==
  /\ \E choice \in RowChoices :
       GoodCall(Preambles.ok \o TableText(choice) \o <<Ch.lf, 1>>)
  /\ includeEmptyFields \in BOOLEAN
  /\ autoDownload = FALSE /\ customFilename = "" /\ browser = TRUE

\* Documents of every structure, with every trailer.
InitStructure ==
  /\ \E pre \in PreambleNames, body \in BodyNames, trailer \in Trailers :
       GoodCall(Preambles[pre] \o Bodies[body] \o trailer)
  /\ includeEmptyFields = FALSE
  /\ autoDownload = FALSE /\ customFilename = "" /\ browser = TRUE

\* Every combination of options and environment on one document.
InitOptions ==
  /\ GoodCall(Preambles.ok \o Bodies.one \o <<Ch.lf, 1>>)
  /\ includeEmptyFields \in BOOLEAN
  /\ autoDownload \in BOOLEAN
  /\ customFilename \in {"", "my.csv"}
  /\ browser \in BOOLEAN

\* One-block containers: every pair of cipher outputs under the two
\* passphrases such that the producer's passphrase yields well-formed
\* PKCS#7 padding; called with either passphrase.
InitUnwrap ==
  /\ fileContent = FileOf(BLOCK_SIZE)
  /\ encPassword = "pw1"
  /\ password \in Passwords
  /\ \E own \in Buffers, other \in BlockOutputs :
       cipher = [p \in Passwords |-> IF p = "pw1" THEN Pkcs7Pad(own) ELSE other]
  /\ includeEmptyFields = FALSE
  /\ autoDownload = TRUE /\ customFilename = "" /\ browser = TRUE
  /\ crypto = "subtle"

\* File contents that are no well-formed container.
InitEdgeFiles ==
  /\ fileContent \in EdgeFiles
  /\ encPassword = "pw1"
  /\ password \in Passwords
  /\ cipher = [p \in Passwords |->
                 Pkcs7Pad(<<Ch.lf, Ch.lf>> \o NEXT_TABLE \o <<1>>)]
  /\ includeEmptyFields = FALSE
  /\ autoDownload = TRUE /\ customFilename = "" /\ browser = TRUE
  /\ crypto = "subtle"

\* Calls in an environment without the Web Crypto API, on a well-formed
\* container and on the file contents that are none.
InitNoCrypto ==
  /\ fileContent \in EdgeFiles \cup {FileOf(BLOCK_SIZE)}
  /\ encPassword = "pw1"
  /\ password \in Passwords
  /\ cipher = [p \in Passwords |->
                 IF p = "pw1"
                 THEN Pkcs7Pad(<<Ch.lf, Ch.lf>> \o NEXT_TABLE \o <<1>>)
                 ELSE Fill(BLOCK_SIZE, 0)]
  /\ crypto \in {"noSubtle", "none"}
  /\ includeEmptyFields = FALSE
  /\ autoDownload = TRUE /\ customFilename = "" /\ browser = TRUE

\* Documents of two data rows, the first carrying every pair of a field
\* value and a neighbour value.
InitFields ==
  /\ \E name \in FieldValues, url \in NeighbourValues :
       GoodCall(Preambles.ok
                \o Join(<<TableHeader, FieldRow(name, url), RowKinds[1]>>,
                        <<Ch.lf>>)
                \o <<Ch.lf, 1>>)
  /\ includeEmptyFields = FALSE
  /\ autoDownload = TRUE /\ customFilename = "" /\ browser = TRUE

Init ==
  /\ Fresh
  /\ FirstCall
  /\ \/ InitExtract
     \/ InitStructure
     \/ InitOptions
     \/ InitUnwrap
     \/ InitEdgeFiles
     \/ InitNoCrypto

\* ------------------------------------------------------------------------
\* Steps of convertSpassToChromeCSV
\* ------------------------------------------------------------------------

\* The catch block: every error is rethrown as `Conversion failed: <message>`;
\* no result is returned.
Fail(message) ==
  /\ pc' = "failed"
  /\ err' = message

\* crypto.subtle.decrypt({name: 'AES-CBC', iv}, key, data): rejects with an
\* OperationError unless the IV is one block and the data a positive number
\* of blocks; decrypts; rejects unless the last octet p is in 1..16 and the
\* last p octets all equal p; resolves to the plaintext without them.
AesCbcDecrypt(k, ivBytes, data) ==
  IF Len(ivBytes) # BLOCK_SIZE \/ Len(data) = 0 \/ Len(data) % BLOCK_SIZE # 0
  THEN [ok |-> FALSE, value |-> <<>>]
  ELSE LET padded == cipher[k.password]
           n == Len(padded)
           p == padded[n]
       IN  IF p = 0 \/ p > BLOCK_SIZE \/ \E i \in (n - p + 1)..n : padded[i] # p
           THEN [ok |-> FALSE, value |-> <<>>]
           ELSE [ok |-> TRUE, value |-> SubSeq(padded, 1, n - p)]

\* decryptSpassData, up to the first await: decode the file content and
\* slice it into salt, IV and ciphertext.
Decode ==
  /\ pc = "decode"
  /\ LET data == base64ToUint8Array(fileContent)
     IN  IF ~data.ok
         THEN /\ Fail(ERR_ATOB)
              /\ UNCHANGED <<salt, iv, encryptedData>>
         ELSE /\ salt' = SliceRange(data.value, 0, SALT_BYTES)
              /\ iv' = SliceRange(data.value, SALT_BYTES, SALT_BYTES + BLOCK_SIZE)
              /\ encryptedData' = SliceRange(data.value, SALT_BYTES + BLOCK_SIZE,
                                             Len(data.value))
              /\ pc' = "deriveKey"
              /\ UNCHANGED err
  /\ UNCHANGED <<callerVars, argVars, envVars, key, decryptedBuffer, decryptedData,
                 extractVars, downloads, result>>

\* Variant of DeriveKey: the key is derived whether or not crypto.subtle
\* exists.
DeriveKey_cryptoAssumed ==
  /\ pc = "deriveKey"
  /\ key' = << [password |-> password, salt |-> salt] >>
  /\ pc' = "decrypt"
  /\ UNCHANGED <<callerVars, argVars, envVars, salt, iv, encryptedData, decryptedBuffer,
                 decryptedData, extractVars, outVars>>

\* `crypto.subtle.importKey(...)` throws when crypto or crypto.subtle does
\* not exist; otherwise importKey + deriveKey (PBKDF2): the key is a
\* function of the passphrase and the salt.
DeriveKey ==
  /\ pc = "deriveKey"
  /\ IF crypto = "none"
     THEN Fail(ERR_NO_CRYPTO) /\ UNCHANGED key
     ELSE IF crypto = "noSubtle"
     THEN Fail(ERR_NO_SUBTLE) /\ UNCHANGED key
     ELSE /\ key' = << [password |-> password, salt |-> salt] >>
          /\ pc' = "decrypt"
          /\ UNCHANGED err
  /\ UNCHANGED <<callerVars, argVars, envVars, salt, iv, encryptedData, decryptedBuffer,
                 decryptedData, extractVars, downloads, result>>

\* crypto.subtle.decrypt, then removePKCS5Padding on what it resolves to.
Decrypt ==
  /\ pc = "decrypt"
  /\ LET plain == AesCbcDecrypt(key[1], iv, encryptedData)
     IN  IF ~plain.ok
         THEN /\ Fail(ERR_CRYPTO)
              /\ UNCHANGED <<decryptedBuffer, decryptedData>>
         ELSE /\ decryptedBuffer' = plain.value
              /\ decryptedData' = removePKCS5Padding(plain.value)
              /\ pc' = "validate"
              /\ UNCHANGED err
  /\ UNCHANGED <<callerVars, argVars, envVars, salt, iv, encryptedData, key, extractVars,
                 downloads, result>>

\* Decode the text and check the sentinel line.
Validate ==
  /\ pc = "validate"
  /\ text' = TextDecode(decryptedData)
  /\ IF sentinelMissing(Split(text', <<Ch.lf>>))
     THEN Fail(ERR_PASSWORD)
     ELSE pc' = "parse" /\ UNCHANGED err
  /\ UNCHANGED <<callerVars, argVars, envVars, unwrapVars, dataRows, rowIdx, records,
                 csvContent, filename, downloads, result>>

\* Variant of dataRowsOf: the data section is everything after the first
\* sentinel, later sentinels included.
dataRowsOf_remainder(parts) ==
  Tail(Split(Trim(Join(SubSeq(parts, 2, Len(parts)), NEXT_TABLE)), <<Ch.lf>>))

\* The rows of the data section: parts[1], trimmed, split into lines, without
\* the first line.
dataRowsOf(parts) == Tail(Split(Trim(parts[2]), <<Ch.lf>>))

\* Split the text on the sentinel and take the data rows.
Parse ==
  /\ pc = "parse"
  /\ LET parts == Split(text, NEXT_TABLE)
     IN  IF Len(parts) < 2
         THEN /\ Fail(ERR_FORMAT)
              /\ UNCHANGED <<dataRows, rowIdx>>
         ELSE /\ dataRows' = dataRowsOf(parts)
              /\ rowIdx' = 1
              /\ pc' = "rows"
              /\ UNCHANGED err
  /\ UNCHANGED <<callerVars, argVars, envVars, unwrapVars, text, records, csvContent,
                 filename, downloads, result>>

\* One iteration of `for (const line of dataRows)`.
ProcessRow ==
  /\ pc = "rows"
  /\ rowIdx <= Len(dataRows)
  /\ LET line == dataRows[rowIdx]
         fields == Split(line, <<Ch.semi>>)
         record == buildRecord(fields)
     IN  records' = IF blankLine(line) THEN records
                    ELSE IF tooFewColumns(fields) THEN records
                    ELSE IF keepRecord(record, includeEmptyFields)
                         THEN Append(records, record)
                         ELSE records
  /\ rowIdx' = rowIdx + 1
  /\ UNCHANGED <<callerVars, argVars, envVars, pc, unwrapVars, text, dataRows, csvContent,
                 filename, outVars>>

\* After the loop: build the CSV text and choose the file name.
BuildCsv ==
  /\ pc = "rows"
  /\ rowIdx > Len(dataRows)
  /\ csvContent' = buildCsv(records)
  /\ filename' = chooseFilename(customFilename)
  /\ pc' = "download"
  /\ UNCHANGED <<callerVars, argVars, envVars, unwrapVars, text, dataRows, rowIdx, records,
                 outVars>>

\* Variant of Download: the file is handed to the browser whether or not
\* autoDownload is set.
Download_always ==
  /\ pc = "download"
  /\ downloads' = IF browser
                  THEN Append(downloads, [content |-> csvContent,
                                          name |-> filename])
                  ELSE downloads
  /\ pc' = "return"
  /\ UNCHANGED <<callerVars, argVars, envVars, unwrapVars, extractVars, result, err>>

\* `if (autoDownload) downloadCSV(csvContent, filename)`; downloadCSV does
\* nothing outside a browser.
Download ==
  /\ pc = "download"
  /\ downloads' = IF autoDownload /\ browser
                  THEN Append(downloads, [content |-> csvContent,
                                          name |-> filename])
                  ELSE downloads
  /\ pc' = "return"
  /\ UNCHANGED <<callerVars, argVars, envVars, unwrapVars, extractVars, result, err>>

\* `return { csv, filename, recordCount, success: true }`
Return ==
  /\ pc = "return"
  /\ result' = << [csv |-> csvContent, filename |-> filename,
                   recordCount |-> Len(records), success |-> TRUE] >>
  /\ pc' = "done"
  /\ UNCHANGED <<callerVars, argVars, envVars, unwrapVars, extractVars, downloads, err>>

Next ==
  \/ Decode
  \/ DeriveKey
  \/ Decrypt
  \/ Validate
  \/ Parse
  \/ ProcessRow
  \/ BuildCsv
  \/ Download
  \/ Return

Spec == Init /\ [][Next]_vars

\* The document behind the container of a caller's repeated calls: a row
\* with a record, and a row whose record is empty.
CallDocument ==
  Preambles.ok \o TableText(<<1, 5>>) \o <<Ch.lf, 1>>

\* The file contents a caller passes: the container of CallDocument, and a
\* file too short to hold a container.
CallFiles ==
  { FileOf(Len(Pkcs7Pad(CallDocument))), B64Encode(Fill(10, 7)) }

\* The arguments of a caller's call, as a record.
CallArgs ==
  [fileContent |-> fileContent, password |-> password,
   autoDownload |-> autoDownload, customFilename |-> customFilename,
   includeEmptyFields |-> includeEmptyFields]

\* What a call that has ended gave its caller: a result, or an error.
CallOutcome ==
  [success |-> pc = "done", result |-> result, err |-> err]

\* A caller's first call.
InitCalls ==
  /\ Fresh
  /\ FirstCall
  /\ fileContent \in CallFiles
  /\ password \in Passwords
  /\ includeEmptyFields \in BOOLEAN
  /\ autoDownload = TRUE /\ customFilename = "" /\ browser = TRUE
  /\ crypto = "subtle"
  /\ encPassword = "pw1"
  /\ cipher = [p \in Passwords |->
                 IF p = "pw1" THEN Pkcs7Pad(CallDocument)
                 ELSE Fill(Len(Pkcs7Pad(CallDocument)), 0)]

\* Variant of NewCall: `records` is not a local of the call; the next call
\* starts with the records the call before left.
NewCall_sharedRecords ==
  /\ pc \in {"done", "failed"}
  /\ calls < MaxCalls
  /\ history' = history \cup {[args |-> CallArgs, outcome |-> CallOutcome]}
  /\ calls' = calls + 1
  /\ fileContent' \in CallFiles
  /\ password' \in Passwords
  /\ includeEmptyFields' \in BOOLEAN
  /\ pc' = "decode"
  /\ salt' = <<>> /\ iv' = <<>> /\ encryptedData' = <<>> /\ key' = <<>>
  /\ decryptedBuffer' = <<>> /\ decryptedData' = <<>>
  /\ text' = <<>> /\ dataRows' = <<>> /\ rowIdx' = 0
  /\ csvContent' = <<>> /\ filename' = ""
  /\ result' = <<>> /\ err' = ""
  /\ UNCHANGED <<autoDownload, customFilename, envVars, records, downloads,
                 uiVars>>

\* The caller, after a call has ended, calls convertSpassToChromeCSV again:
\* every local of the function is a new one; what the browser was handed
\* stays with the browser.
NewCall ==
  /\ pc \in {"done", "failed"}
  /\ calls < MaxCalls
  /\ history' = history \cup {[args |-> CallArgs, outcome |-> CallOutcome]}
  /\ calls' = calls + 1
  /\ fileContent' \in CallFiles
  /\ password' \in Passwords
  /\ includeEmptyFields' \in BOOLEAN
  /\ pc' = "decode"
  /\ salt' = <<>> /\ iv' = <<>> /\ encryptedData' = <<>> /\ key' = <<>>
  /\ decryptedBuffer' = <<>> /\ decryptedData' = <<>>
  /\ text' = <<>> /\ dataRows' = <<>> /\ rowIdx' = 0 /\ records' = <<>>
  /\ csvContent' = <<>> /\ filename' = ""
  /\ result' = <<>> /\ err' = ""
  /\ UNCHANGED <<autoDownload, customFilename, envVars, downloads, uiVars>>

NextCalls ==
  \/ Next
  \/ NewCall

\* A caller making up to MaxCalls calls, one after the other.
SpecCalls == InitCalls /\ [][NextCalls]_vars

\* First calls on the documents of InitFields.
InitCsv == Fresh /\ FirstCall /\ InitFields

SpecCsv == InitCsv /\ [][Next]_vars

\* ------------------------------------------------------------------------
\* The form: SpassFileConverter
\* ------------------------------------------------------------------------

\* What the file input can hold: no file, or the container of CallDocument.
FormFiles == { <<>>, << FileOf(Len(Pkcs7Pad(CallDocument))) >> }

\* What the password field can hold.
FormPasswords == {""} \cup Passwords

\* The variables of a call of convertSpassToChromeCSV.
convertVars == <<argVars, pc, unwrapVars, extractVars, outVars>>

\* The form as mounted: no conversion has been started (pc = "idle").
InitForm ==
  /\ InitialForm
  /\ calls = 0 /\ history = {}
  /\ pc = "idle"
  /\ fileContent = <<>> /\ password = "" /\ includeEmptyFields = FALSE
  /\ autoDownload = TRUE /\ customFilename = ""
  /\ salt = <<>> /\ iv = <<>> /\ encryptedData = <<>> /\ key = <<>>
  /\ decryptedBuffer = <<>> /\ decryptedData = <<>>
  /\ text = <<>> /\ dataRows = <<>> /\ rowIdx = 0 /\ records = <<>>
  /\ csvContent = <<>> /\ filename = ""
  /\ downloads = <<>> /\ result = <<>> /\ err = ""
  /\ browser = TRUE /\ crypto = "subtle"
  /\ encPassword = "pw1"
  /\ cipher = [p \in Passwords |->
                 IF p = "pw1" THEN Pkcs7Pad(CallDocument)
                 ELSE Fill(Len(Pkcs7Pad(CallDocument)), 0)]

\* handleFileChange: `setFile(selected); setError('')`
handleFileChange ==
  /\ file' \in FormFiles
  /\ error' = ""
  /\ UNCHANGED <<passwordInput, loading, success, calls, history, envVars,
                 convertVars>>

\* The password field's onChange: `setPassword(e.target.value)`
handlePasswordChange ==
  /\ passwordInput' \in FormPasswords
  /\ UNCHANGED <<file, error, loading, success, calls, history, envVars,
                 convertVars>>

\* The submit button is rendered with `disabled={loading}`; a form whose
\* submit button is disabled is submitted neither by a click nor by Enter.
submitEnabled == ~loading

\* Variant of handleSubmit: without `setError('')`.
handleSubmit_keepsError ==
  /\ submitEnabled
  /\ calls < MaxCalls
  /\ success' = FALSE
  /\ IF file = <<>>
     THEN /\ error' = MSG_NO_FILE
          /\ UNCHANGED <<loading, calls, convertVars>>
     ELSE IF passwordInput = ""
     THEN /\ error' = MSG_NO_PASSWORD
          /\ UNCHANGED <<loading, calls, convertVars>>
     ELSE /\ error' = error
          /\ loading' = TRUE
          /\ calls' = calls + 1
          /\ fileContent' = file[1]
          /\ password' = passwordInput
          /\ autoDownload' = TRUE
          /\ pc' = "decode"
          /\ salt' = <<>> /\ iv' = <<>> /\ encryptedData' = <<>>
          /\ key' = <<>> /\ decryptedBuffer' = <<>> /\ decryptedData' = <<>>
          /\ text' = <<>> /\ dataRows' = <<>> /\ rowIdx' = 0
          /\ records' = <<>> /\ csvContent' = <<>> /\ filename' = ""
          /\ result' = <<>> /\ err' = ""
          /\ UNCHANGED <<customFilename, includeEmptyFields, downloads>>
  /\ UNCHANGED <<file, passwordInput, history, envVars>>

\* handleSubmit up to its await: clear error and success, validate the
\* inputs, set loading and call convertSpassToChromeCSV(file, password,
\* {autoDownload: true}).
handleSubmit ==
  /\ submitEnabled
  /\ calls < MaxCalls
  /\ success' = FALSE
  /\ IF file = <<>>
     THEN /\ error' = MSG_NO_FILE
          /\ UNCHANGED <<loading, calls, convertVars>>
     ELSE IF passwordInput = ""
     THEN /\ error' = MSG_NO_PASSWORD
          /\ UNCHANGED <<loading, calls, convertVars>>
     ELSE /\ error' = ""
          /\ loading' = TRUE
          /\ calls' = calls + 1
          /\ fileContent' = file[1]
          /\ password' = passwordInput
          /\ autoDownload' = TRUE
          /\ pc' = "decode"
          /\ salt' = <<>> /\ iv' = <<>> /\ encryptedData' = <<>>
          /\ key' = <<>> /\ decryptedBuffer' = <<>> /\ decryptedData' = <<>>
          /\ text' = <<>> /\ dataRows' = <<>> /\ rowIdx' = 0
          /\ records' = <<>> /\ csvContent' = <<>> /\ filename' = ""
          /\ result' = <<>> /\ err' = ""
          /\ UNCHANGED <<customFilename, includeEmptyFields, downloads>>
  /\ UNCHANGED <<file, passwordInput, history, envVars>>

\* handleSubmit after its await: the call has returned or thrown;
\* setSuccess(true) or setError(message), then `finally setLoading(false)`.
handleSubmitSettled ==
  /\ loading
  /\ pc \in {"done", "failed"}
  /\ IF pc = "done"
     THEN IF ~result[1].success
          THEN error' = MSG_FAILED /\ UNCHANGED success
          ELSE success' = TRUE /\ UNCHANGED error
     ELSE error' = err /\ UNCHANGED success
  /\ loading' = FALSE
  /\ history' = history \cup {[args |-> CallArgs, outcome |-> CallOutcome]}
  /\ pc' = "idle"
  /\ UNCHANGED <<file, passwordInput, calls, envVars, argVars, unwrapVars,
                 extractVars, outVars>>

\* handleCloseSnackbar, called by the Snackbar while it is open.
handleCloseSnackbar ==
  /\ success
  /\ success' = FALSE
  /\ UNCHANGED <<file, passwordInput, error, loading, calls, history, envVars,
                 convertVars>>

NextForm ==
  \/ handleFileChange
  \/ handlePasswordChange
  \/ handleSubmit
  \/ Next
  \/ handleSubmitSettled
  \/ handleCloseSnackbar

\* The form and the conversions it starts, up to MaxCalls of them.
SpecForm == InitForm /\ [][NextForm]_vars

\* ------------------------------------------------------------------------
\* Properties
\* ------------------------------------------------------------------------

\* s consists of the sentinel with nothing but white space around it.
IsSentinelLine(s) ==
  \E i \in 1..Len(s) :
    /\ OccursAt(s, NEXT_TABLE, i)
    /\ \A j \in 1..Len(s) :
         (j < i \/ j >= i + Len(NEXT_TABLE)) => s[j] \in JsWhiteSpace

\* The text has a third line and that line is the sentinel: stated on the
\* positions of the line breaks.
SentinelAtLine2(t) ==
  LET lfs == {i \in 1..Len(t) : t[i] = Ch.lf}
  IN  /\ Cardinality(lfs) >= 2
      /\ LET first == MinOf(lfs)
             second == MinOf(lfs \ {first})
             rest == lfs \ {first, second}
             stop == IF rest = {} THEN Len(t) + 1 ELSE MinOf(rest)
         IN  IsSentinelLine(SubSeq(t, second + 1, stop - 1))

\* The cipher output carries well-formed PKCS#7 padding.
GoodPkcs7(padded) ==
  LET n == Len(padded)
  IN  /\ n > 0
      /\ padded[n] \in 1..BLOCK_SIZE
      /\ \A i \in (n - padded[n] + 1)..n : padded[i] = padded[n]

\* The call has ended.
Ended == pc \in {"done", "failed"}

\* The call's passphrase is not the one the container was produced with.
WrongPassphrase == password # encPassword

\* C1 (as stated): with a passphrase other than the one the container was
\* encrypted with, convert never returns a result, whatever the wrong key
\* decrypts the ciphertext to.
C1_WrongPassphraseNeverSucceeds ==
  WrongPassphrase => (pc # "done" /\ result = <<>>)

\* C1 (amended): with a passphrase other than the one the container was
\* encrypted with, convert returns a result only if the bytes that key
\* decrypts to carry well-formed padding and, after padding removal, the
\* sentinel on the line at index 2; in every other case the call, once the
\* key is derived, fails at decryption or at the sentinel check.
C1_WrongPassphraseFailsUnlessChecksPass ==
  (WrongPassphrase /\ Ended /\ key # <<>>) =>
    IF /\ Len(iv) = BLOCK_SIZE
       /\ Len(encryptedData) > 0
       /\ Len(encryptedData) % BLOCK_SIZE = 0
       /\ GoodPkcs7(cipher[password])
       /\ SentinelAtLine2(TextDecode(decryptedData))
    THEN pc = "done"
    ELSE pc = "failed" /\ result = <<>> /\ err \in {ERR_CRYPTO, ERR_PASSWORD}

\* C1 witness: a wrong passphrase got through decryption and was rejected
\* at the sentinel check.
C1_Witness ==
  /\ WrongPassphrase
  /\ pc = "failed"
  /\ err = ERR_PASSWORD
  /\ decryptedBuffer # <<>>

\* The decrypted text has been produced (Validate has run).
TextDecoded ==
  \/ pc \in {"parse", "rows", "download", "return", "done"}
  \/ pc = "failed" /\ err \in {ERR_PASSWORD, ERR_FORMAT}

\* C2: extraction goes on only if the decrypted text has at least 3 lines
\* and the line at index 2, trimmed, is the sentinel; for every other text
\* the call fails and returns no records.
C2_SentinelGate ==
  TextDecoded =>
    IF SentinelAtLine2(text)
    THEN err # ERR_PASSWORD
    ELSE pc = "failed" /\ err = ERR_PASSWORD /\ result = <<>> /\ records = <<>>

\* C2 witness: a text that holds the sentinel, but not on the line at
\* index 2, was rejected.
C2_Witness ==
  /\ pc = "failed"
  /\ err = ERR_PASSWORD
  /\ \E i \in 1..Len(text) : OccursAt(text, NEXT_TABLE, i)

\* C3 (as stated): padding removal strips as many trailing bytes as the last
\* decrypted byte says, and the unwrap step fails, and so does not return,
\* when that byte exceeds the buffer length or nothing is left after
\* stripping (an empty buffer included).
C3_UnwrapRejectsBadPadding ==
  pc = "validate" =>
    /\ decryptedBuffer # <<>>
    /\ decryptedBuffer[Len(decryptedBuffer)] < Len(decryptedBuffer)
    /\ Len(decryptedData) =
         Len(decryptedBuffer) - decryptedBuffer[Len(decryptedBuffer)]

\* C4 (as stated): when the file content is not base64 or decodes to fewer
\* than 36 bytes, the call fails before a key is derived, with an error
\* other than the one decryption raises.
C4_ShortInputFailsBeforeKey ==
  LET data == base64ToUint8Array(fileContent)
  IN  (~data.ok \/ Len(data.value) < SALT_BYTES + BLOCK_SIZE) =>
        /\ key = <<>>
        /\ pc \in {"decode", "failed"}
        /\ err # ERR_CRYPTO

\* C5: a failed call returns no result and has triggered no download; the
\* download happens at most once, only with autoDownload, and only with
\* the complete output text, after the row loop has ended.
C5_AllOrNothing ==
  /\ pc = "failed" => (result = <<>> /\ downloads = <<>>)
  /\ Len(downloads) <= 1
  /\ downloads # <<>> =>
       /\ autoDownload
       /\ pc \in {"return", "done"}
       /\ rowIdx > Len(dataRows)
       /\ downloads[1].content = buildCsv(records)
  /\ result # <<>> => pc = "done"

\* C5 witness: a call with autoDownload has returned its result after one
\* download.
C5_Witness ==
  /\ pc = "done"
  /\ Len(downloads) = 1
  /\ result # <<>>

\* ---- rows and records, stated on the text of a row ----

\* The line holds nothing but white space.
Blank(s) == \A i \in 1..Len(s) : s[i] \in JsWhiteSpace

\* Positions of the semicolons of a line, and its number of columns.
Semis(line) == {i \in 1..Len(line) : line[i] = Ch.semi}

Columns(line) == Cardinality(Semis(line)) + 1

\* The k-th semicolon of a line (k >= 1).
SemiAt(line, k) ==
  CHOOSE i \in Semis(line) : Cardinality({j \in Semis(line) : j <= i}) = k

\* The text of the column at zero-based position k; empty when absent.
Column(line, k) ==
  IF k >= Columns(line) THEN <<>>
  ELSE LET from == IF k = 0 THEN 1 ELSE SemiAt(line, k) + 1
           to == IF k + 1 = Columns(line) THEN Len(line)
                 ELSE SemiAt(line, k + 1) - 1
       IN  SubSeq(line, from, to)

\* Base64-decoded text of a column, the column itself when it does not decode.
DecodeOrRaw(raw) ==
  IF raw = <<>> THEN <<>>
  ELSE IF Atob(raw).ok THEN Atob(raw).value ELSE raw

\* name, url, username, password, note come from columns 17, 1, 4, 7, 31.
TargetPositions == <<17, 1, 4, 7, 31>>

ExpectedRecord(line) ==
  << DecodeOrRaw(Column(line, 17)), DecodeOrRaw(Column(line, 1)),
     DecodeOrRaw(Column(line, 4)), DecodeOrRaw(Column(line, 7)),
     DecodeOrRaw(Column(line, 31)) >>

\* A row that is not blank and has at least 33 columns.
Qualifying(line) == ~Blank(line) /\ Columns(line) >= 33

\* At least one field of the record is non-empty after trimming.
NonEmptyRecord(r) == \E k \in 1..Len(r) : ~Blank(r[k])

\* The step is one iteration of the row loop, on the line `CurrentLine`.
RowStep == pc = "rows" /\ rowIdx <= Len(dataRows) /\ rowIdx' = rowIdx + 1

CurrentLine == dataRows[rowIdx]

\* The step appends one record and leaves the earlier ones as they were.
AppendsOne ==
  /\ Len(records') = Len(records) + 1
  /\ SubSeq(records', 1, Len(records)) = records

\* C6: a non-blank row of fewer than 33 columns is discarded, without
\* failing the call and without touching the records of other rows; a row
\* of 33 or more columns is a record candidate (kept whenever it is
\* non-empty or includeEmptyFields is set).
C6_ColumnThreshold ==
  [][ (RowStep /\ ~Blank(CurrentLine)) =>
        /\ pc' = "rows" /\ err' = "" /\ result' = <<>>
        /\ Columns(CurrentLine) < 33 => records' = records
        /\ Columns(CurrentLine) >= 33 =>
             IF includeEmptyFields \/ NonEmptyRecord(ExpectedRecord(CurrentLine))
             THEN AppendsOne
             ELSE records' = records ]_vars

\* C6 witness: a call has ended with one record from a document whose rows
\* were one of 32 columns and one of 33.
C6_Witness ==
  /\ pc = "done"
  /\ Len(records) = 1
  /\ \E i, j \in 1..Len(dataRows) :
       /\ ~Blank(dataRows[i]) /\ Columns(dataRows[i]) = 32
       /\ Columns(dataRows[j]) = 33

\* C7: the fields of a record, in the order name, url, username, password,
\* note, come from the columns at positions 17, 1, 4, 7 and 31 of its row,
\* an empty column giving the empty string.
C7_FieldPositions ==
  [][ (RowStep /\ Qualifying(CurrentLine) /\ records' # records) =>
        /\ AppendsOne
        /\ records'[Len(records')] = ExpectedRecord(CurrentLine)
        /\ \A k \in 1..5 :
             Column(CurrentLine, TargetPositions[k]) = <<>> =>
               records'[Len(records')][k] = <<>> ]_vars

\* C7 witness: the record of a row whose five target columns hold five
\* different values, other columns being filled too.
C7_Witness ==
  /\ pc = "rows"
  /\ Len(records) = 1
  /\ records[1] = << <<78>>, <<117, 44, 49>>, <<109, 101>>, <<112, 34, 119>>,
                     <<108, 49, 10, 108, 50>> >>

\* C8: a field whose column does not decode as base64 keeps the column's
\* raw text; the fields of the same record that do decode are decoded, the
\* record is kept, and the call does not fail.
C8_DecodeFallback ==
  [][ (RowStep /\ Qualifying(CurrentLine)) =>
        \A k \in 1..5 :
          LET raw == Column(CurrentLine, TargetPositions[k])
          IN  (raw # <<>> /\ ~Atob(raw).ok) =>
                /\ pc' = "rows" /\ err' = ""
                /\ ~Blank(raw) =>
                     /\ AppendsOne
                     /\ records'[Len(records')][k] = raw
                     /\ \A j \in 1..5 :
                          LET other == Column(CurrentLine, TargetPositions[j])
                          IN  (other # <<>> /\ Atob(other).ok) =>
                                records'[Len(records')][j] = Atob(other).value
    ]_vars

\* C8 witness: a record with a decoded name next to a user name and a
\* password kept raw.
C8_Witness ==
  /\ Len(records) >= 1
  /\ records[1] = << <<78>>, <<>>, <<97>>, <<112, Ch.bang>>, <<>> >>

\* C9 (as stated): without includeEmptyFields a qualifying row is kept iff
\* one of its five fields is non-empty after trimming; with it every
\* qualifying row is kept, and a row whose five target columns are all
\* empty or white space is kept with five empty field values.
C9_EmptyRowPolicy ==
  [][ (RowStep /\ Qualifying(CurrentLine)) =>
        IF includeEmptyFields
        THEN /\ AppendsOne
             /\ (\A k \in 1..5 : Blank(Column(CurrentLine, TargetPositions[k])))
                  => records'[Len(records')] = << <<>>, <<>>, <<>>, <<>>, <<>> >>
        ELSE IF NonEmptyRecord(ExpectedRecord(CurrentLine))
             THEN AppendsOne
             ELSE records' = records ]_vars

\* ---- the output text ----

\* 'name,url,username,password,note'
HeaderLine ==
  <<110, 97, 109, 101, 44, 117, 114, 108, 44, 117, 115, 101, 114, 110, 97,
    109, 101, 44, 112, 97, 115, 115, 119, 111, 114, 100, 44, 110, 111, 116,
    101>>

\* The records of the rows, in row order: one per qualifying row that is
\* non-empty, or per qualifying row when incl is set.
RECURSIVE RetainedFrom(_, _)
RetainedFrom(rows, incl) ==
  IF rows = <<>> THEN <<>>
  ELSE LET r == ExpectedRecord(Head(rows))
       IN  (IF Qualifying(Head(rows)) /\ (incl \/ NonEmptyRecord(r))
            THEN <<r>> ELSE <<>>) \o RetainedFrom(Tail(rows), incl)

\* The number of qualifying rows with a non-empty record.
NonEmptyQualifying(rows) ==
  Cardinality({i \in 1..Len(rows) :
                 Qualifying(rows[i]) /\ NonEmptyRecord(ExpectedRecord(rows[i]))})

\* A record as one line of output.
SerializedRow(r) ==
  Join([k \in 1..Len(r) |-> escapeCSVField(r[k])], <<Ch.comma>>)

\* Header line, then the serialized records, joined by line breaks.
OutputOf(recs) ==
  Join(<<HeaderLine>> \o [i \in 1..Len(recs) |-> SerializedRow(recs[i])],
       <<Ch.lf>>)

\* The number of rows of a CSV text: one more than its line breaks that
\* stand outside quotes.
CsvRows(csv) ==
  1 + Cardinality({i \in 1..Len(csv) :
        /\ csv[i] = Ch.lf
        /\ Cardinality({j \in 1..i : csv[j] = Ch.quote}) % 2 = 0})

\* C10 (as stated): the output is the header row followed by one serialized
\* row per retained record in row order, and recordCount is the number of
\* non-empty qualifying rows.
C10_CountIsNonEmptyRows ==
  pc = "done" =>
    /\ result[1].csv = OutputOf(RetainedFrom(dataRows, includeEmptyFields))
    /\ result[1].recordCount = NonEmptyQualifying(dataRows)

\* C10 (amended): the output is the header row followed by one serialized
\* row per retained record in row order, and recordCount is the number of
\* retained records, which is the number of rows after the header: the
\* non-empty qualifying rows and, with includeEmptyFields, the empty
\* qualifying rows as well.
C10_OutputIsRetainedRows ==
  pc = "done" =>
    /\ result[1].csv = OutputOf(RetainedFrom(dataRows, includeEmptyFields))
    /\ result[1].recordCount = Len(RetainedFrom(dataRows, includeEmptyFields))
    /\ result[1].recordCount = CsvRows(result[1].csv) - 1
    /\ ~includeEmptyFields =>
         result[1].recordCount = NonEmptyQualifying(dataRows)

\* C10 witness: a call has returned two different records, in the order
\* of their rows.
C10_Witness ==
  /\ pc = "done"
  /\ Len(dataRows) = 2
  /\ result[1].recordCount = 2
  /\ records[1] = ExpectedRecord(dataRows[1])
  /\ records[2] = ExpectedRecord(dataRows[2])
  /\ records[1] # records[2]

\* A field as standard CSV quoting writes it: as it is, or, when it holds a
\* comma, a double quote or a line break character, between double quotes
\* with each double quote inside written twice.
QuotedForm(field) ==
  LET special == {i \in 1..Len(field) :
                    field[i] \in {Ch.comma, Ch.quote, Ch.lf, Ch.cr}}
      piece(i) == IF field[i] = Ch.quote THEN <<Ch.quote, Ch.quote>>
                  ELSE <<field[i]>>
  IN  IF special = {} THEN field
      ELSE <<Ch.quote>> \o Join([i \in 1..Len(field) |-> piece(i)], <<>>)
           \o <<Ch.quote>>

\* The k-th smallest element of a set of integers.
Nth(P, k) == CHOOSE p \in P : Cardinality({q \in P : q < p}) = k - 1

\* A quoted field without its quoting: the text between the enclosing
\* double quotes with every pair of double quotes read as one; a field
\* that is not quoted is read as it is.
Unquote(raw) ==
  IF Len(raw) >= 2 /\ raw[1] = Ch.quote /\ raw[Len(raw)] = Ch.quote
  THEN LET inner == SubSeq(raw, 2, Len(raw) - 1)
           quotesTo(j) == Cardinality({i \in 1..j : inner[i] = Ch.quote})
           keep == {j \in 1..Len(inner) :
                      inner[j] # Ch.quote \/ quotesTo(j) % 2 = 1}
       IN  [k \in 1..Cardinality(keep) |-> inner[Nth(keep, k)]]
  ELSE raw

\* The rows of fields a CSV text reads back as under standard CSV quoting
\* (RFC 4180): a comma or a line break character separates fields or rows
\* when it stands outside quotes, that is after an even number of double
\* quotes.
ParseCsv(s) ==
  LET quotes == {i \in 1..Len(s) : s[i] = Ch.quote}
      outside(i) == Cardinality({q \in quotes : q < i}) % 2 = 0
      breaks == {i \in 1..Len(s) : s[i] \in {Ch.lf, Ch.cr} /\ outside(i)}
      commas == {i \in 1..Len(s) : s[i] = Ch.comma /\ outside(i)}
      lo(P, k, from) == IF k = 1 THEN from ELSE Nth(P, k - 1) + 1
      hi(P, k, to) == IF k = Cardinality(P) + 1 THEN to ELSE Nth(P, k) - 1
      row(from, to) ==
        LET cs == {c \in commas : from <= c /\ c <= to}
        IN  [k \in 1..(Cardinality(cs) + 1) |->
               Unquote(SubSeq(s, lo(cs, k, from), hi(cs, k, to)))]
  IN  [r \in 1..(Cardinality(breaks) + 1) |->
         row(lo(breaks, r, 1), hi(breaks, r, Len(s)))]

\* C11: in the output every field is written unchanged unless it holds a
\* comma, a double quote, LF or CR, and then between double quotes with its
\* double quotes doubled; read back under standard CSV quoting, the output
\* is the header row followed by exactly the five field values of each
\* record.
C11_QuotingRoundTrip ==
  pc \in {"download", "return", "done"} =>
    /\ csvContent =
         Join([r \in 1..(Len(records) + 1) |->
                 Join([k \in 1..Len(colsNeeded) |->
                         QuotedForm(IF r = 1 THEN CHROME_CSV_HEADERS[k]
                                    ELSE records[r - 1][k])],
                      <<Ch.comma>>)],
              <<Ch.lf>>)
    /\ ParseCsv(csvContent) = <<CHROME_CSV_HEADERS>> \o records

\* C11 witness: a call has returned a record whose name holds a double
\* quote and a comma and whose url holds CR and LF.
C11_Witness ==
  /\ pc = "done"
  /\ Len(records) = 2
  /\ records[1][1] = <<Ch.quote, Ch.comma>>
  /\ records[1][2] = <<Ch.cr, Ch.lf>>
  /\ result[1].csv = csvContent

\* The positions at which the sentinel occurs in t.
Occurrences(t) == {i \in 1..Len(t) : OccursAt(t, NEXT_TABLE, i)}

\* What follows the first occurrence of the sentinel, to the end of t.
AfterFirstSentinel(t) ==
  SubSeq(t, MinOf(Occurrences(t)) + Len(NEXT_TABLE), Len(t))

\* What stands between the first occurrence of the sentinel and the
\* second, or the end of t when there is no second.
UpToSecondSentinel(t) ==
  LET first == MinOf(Occurrences(t))
      later == {i \in Occurrences(t) : i > first}
      stop == IF later = {} THEN Len(t) + 1 ELSE MinOf(later)
  IN  SubSeq(t, first + Len(NEXT_TABLE), stop - 1)

\* The data rows of a body: its lines after trimming, without the first.
RowsOfBody(body) == Tail(Split(Trim(body), <<Ch.lf>>))

\* The call has got past the split on the sentinel.
PastParse == pc \in {"rows", "download", "return", "done"}

\* C14 (as stated): the body is everything after the first occurrence of
\* the sentinel, so that the rows after a later occurrence are data rows
\* too and every qualifying, retained one of them is in the output.
C14_BodyIsWholeRemainder ==
  /\ PastParse => dataRows = RowsOfBody(AfterFirstSentinel(text))
  /\ pc = "done" =>
       result[1].csv =
         OutputOf(RetainedFrom(RowsOfBody(AfterFirstSentinel(text)),
                               includeEmptyFields))

\* C14 (amended): the body begins right after the first occurrence of the
\* sentinel in the whole text, also when that occurrence lies inside line
\* 0 or 1, and ends before the second occurrence or, when there is none,
\* at the end of the text; the data rows are the lines of the trimmed body
\* after its first, and the output holds the retained records of exactly
\* these rows.
C14_BodyEndsAtSecondSentinel ==
  /\ PastParse => dataRows = RowsOfBody(UpToSecondSentinel(text))
  /\ pc = "done" =>
       result[1].csv =
         OutputOf(RetainedFrom(RowsOfBody(UpToSecondSentinel(text)),
                               includeEmptyFields))

\* C14 witness: a call has returned one record from a text in which a
\* second occurrence of the sentinel is followed by a qualifying row.
C14_Witness ==
  /\ pc = "done"
  /\ Cardinality(Occurrences(text)) = 2
  /\ result[1].recordCount = 1
  /\ LET after == RowsOfBody(AfterFirstSentinel(text))
     IN  /\ Len(after) > Len(dataRows)
         /\ Qualifying(after[Len(after)])
         /\ NonEmptyRecord(ExpectedRecord(after[Len(after)]))

\* C15: a call on a document whose line at index 2 is the sentinel and
\* whose text ends with that sentinel fails with the missing-data-section
\* format error; it does not succeed with zero records.
C15_MissingBodyFails ==
  (Ended /\ TextDecoded /\ SentinelAtLine2(text)
         /\ AfterFirstSentinel(text) = <<>>) =>
    /\ pc = "failed"
    /\ err = ERR_FORMAT
    /\ result = <<>>

\* The failures reported for a wrong passphrase or a corrupted ciphertext.
DecryptionFailures == {ERR_CRYPTO, ERR_PASSWORD}

\* The failures reported for a missing Web Crypto API.
CapabilityFailures == {ERR_NO_CRYPTO, ERR_NO_SUBTLE}

\* C13 (as stated): whenever isWebCryptoSupported() is false, a call ends
\* in a capability failure.
C13_ReportsCapabilityFailure ==
  (Ended /\ ~isWebCryptoSupported) =>
    pc = "failed" /\ err \in CapabilityFailures

\* C13 (amended): whenever isWebCryptoSupported() is false, a call fails
\* without result or download, and never with the failure of a wrong
\* passphrase or a corrupted ciphertext: with the base64 error when the
\* file content does not decode, and else with the runtime's error about
\* the missing crypto object, which no call reports when the API exists.
C13_NoCryptoFailsDistinctly ==
  /\ (Ended /\ ~isWebCryptoSupported) =>
       /\ pc = "failed" /\ result = <<>> /\ downloads = <<>>
       /\ err \notin DecryptionFailures
       /\ IF Atob(fileContent).ok
          THEN err \in CapabilityFailures
          ELSE err = ERR_ATOB
  /\ (Ended /\ isWebCryptoSupported) => err \notin CapabilityFailures

\* C13 witness: without crypto.subtle, a call on a well-formed container
\* with its own passphrase has failed with the error about it.
C13_Witness ==
  /\ pc = "failed"
  /\ crypto = "noSubtle"
  /\ fileContent = FileOf(BLOCK_SIZE)
  /\ password = encPassword
  /\ err = ERR_NO_SUBTLE

\* C12: two calls with the same file content, passphrase and options give
\* the same outcome whatever calls were made before or between them: both
\* return the same output text, file name and record count, or both fail
\* with the same error.
C12_SameArgumentsSameOutcome ==
  /\ \A h1, h2 \in history : h1.args = h2.args => h1.outcome = h2.outcome
  /\ Ended => \A h \in history : h.args = CallArgs => h.outcome = CallOutcome

\* C12 witness: a third call has returned a record, with the arguments of
\* an earlier call, after calls with another passphrase and another file.
C12_Witness ==
  /\ pc = "done"
  /\ calls = 3
  /\ result[1].recordCount = 1
  /\ \E h \in history : h.args = CallArgs /\ h.outcome = CallOutcome
  /\ \E h \in history : h.args # CallArgs /\ ~h.outcome.success

\* C16: whatever the order of submits, conversions ending, file selections
\* and snackbar closings, success and a non-empty error are never set
\* together, and success is set only after a conversion that the form
\* started has returned successfully; a conversion is in flight exactly
\* while loading is set, so no two are in flight together.
C16_SuccessExcludesError ==
  /\ ~(success /\ error # "")
  /\ success =>
       /\ pc = "idle" /\ calls >= 1
       /\ result # <<>> /\ result[1].success
       /\ \E h \in history :
            h.args = CallArgs /\ h.outcome.success /\ h.outcome.result = result
  /\ loading <=> pc # "idle"

\* C16 witness: success is set after a conversion that followed a failed
\* one, the file having been selected again in between.
C16_Witness ==
  /\ success /\ error = ""
  /\ calls = 2
  /\ \E h \in history : ~h.outcome.success
  /\ file = <<>>

====
